---- MODULE Spec2Model ----
(***************************************************************************)
(* The real-time voice call pipeline of backend/routes/voice.py and        *)
(* backend/services/voice.py as a state machine.                           *)
(*                                                                         *)
(* One asyncio event loop runs every coroutine, so a step of the model is  *)
(* the code between two suspension points (await) of one coroutine:        *)
(*   - media_stream_handler, one per WebSocket connection;                 *)
(*   - process_agent_response, one task per finalized utterance;           *)
(*   - the Deepgram callback on_message -> on_transcript, run to its end.  *)
(* agent.run, store_conversation and the Supabase calls are synchronous    *)
(* and therefore part of the step that makes them. An await that is        *)
(* followed only by assignments to the coroutine's own locals is not a     *)
(* step of its own.                                                        *)
(*                                                                         *)
(* Every handler is an operator from the current state St to the state     *)
(* after it; the action of the handler applies that state.                 *)
(***************************************************************************)
EXTENDS Integers, Sequences, FiniteSets, TLC

\* ---------------------------------------------------------------- bounds
MaxSessions == 2      \* start events handled in one run (Session objects)
MaxFragments == 2     \* finalized utterances the STT service delivers
MaxAudio == 321       \* bytes of the longest audio string played on its own
MaxSamples == 3       \* bytes of the longest audio string converted on its own
MaxClock == 1200      \* milliseconds the clock runs when time is followed

\* ------------------------------------------------------- program values
chunk_size == 160     \* bytes of one outbound frame (20 ms of 8 kHz mu-law)

Conns == {1, 2}                    \* WebSocket connections
CallIds == {"CA1", "CA2"}          \* callSid values the transport may send
None == "None"                     \* Python's None

\* data['streamSid'] of the start events of connection c: Twilio names one
\* stream per connection
StreamSid(c) == <<"MZ1", "MZ2">>[c]
AudioLens == {0, 160, 161}         \* byte lengths the TTS path may return

\* start events the transport may send: callSid, customParameters.From, and
\* whether the caller lookup of lines 88-106 succeeds for it
StartEvents ==
    { [callSid |-> "CA1", from |-> "+1555", memok |-> TRUE],
      [callSid |-> "CA2", from |-> "+1666", memok |-> FALSE] }

\* recognition results Deepgram may deliver: the transcript as characters,
\* is_final and speech_final
Results ==
    { [sentence |-> <<>>,         is_final |-> TRUE,  speech_final |-> TRUE],
      [sentence |-> <<" ">>,      is_final |-> TRUE,  speech_final |-> TRUE],
      [sentence |-> <<"a">>,      is_final |-> FALSE, speech_final |-> FALSE],
      [sentence |-> <<"a">>,      is_final |-> TRUE,  speech_final |-> FALSE],
      [sentence |-> <<" ", "a">>, is_final |-> TRUE,  speech_final |-> TRUE] }

VARIABLES
    now,            \* datetime.now(), in milliseconds
    active_calls,   \* call_sid -> Session object (0: no such key)
    sessions,       \* the Session objects ever created, by object identity
    persisted,      \* per Session object: store_conversation calls made for it
    overwrote,      \* per Session object: the object whose key it took over
    hpc,            \* per connection: where media_stream_handler is suspended
    call_sid,       \* per connection: the handler's local call_sid
    stream_sid,     \* per connection: the handler's local stream_sid
    deepgram_ws,    \* per connection: the handler's local deepgram_ws
    dgFed,          \* per connection: audio reached the current Deepgram stream
    dgLeaked,       \* per connection: an earlier, fed stream was never finished
    wsOpen,         \* per connection: the transport still holds the socket
    welcome,        \* per connection: the welcome playback in progress
    tasks,          \* process_agent_response tasks, in creation order
    fragLog,        \* finalized utterances delivered, in delivery order
    cbErrors,       \* exceptions on_transcript raised into the Deepgram client
    play,           \* one call of stream_audio_to_twilio_websocket on its own
    codec           \* one audio string taken through the conversions on its own

vars == <<now, active_calls, sessions, persisted, overwrote, hpc, call_sid, stream_sid,
          deepgram_ws, dgFed, dgLeaked, wsOpen, welcome, tasks, fragLog,
          cbErrors, play, codec>>

\* The current state as one value.
St ==
    [ now |-> now, active_calls |-> active_calls, sessions |-> sessions,
      persisted |-> persisted, overwrote |-> overwrote, hpc |-> hpc, call_sid |-> call_sid,
      stream_sid |-> stream_sid, deepgram_ws |-> deepgram_ws, dgFed |-> dgFed,
      dgLeaked |-> dgLeaked, wsOpen |-> wsOpen, welcome |-> welcome,
      tasks |-> tasks, fragLog |-> fragLog, cbErrors |-> cbErrors,
      play |-> play, codec |-> codec ]

\* The step to the state e.
Apply(e) ==
    /\ now' = e.now
    /\ active_calls' = e.active_calls
    /\ sessions' = e.sessions
    /\ persisted' = e.persisted
    /\ overwrote' = e.overwrote
    /\ hpc' = e.hpc
    /\ call_sid' = e.call_sid
    /\ stream_sid' = e.stream_sid
    /\ deepgram_ws' = e.deepgram_ws
    /\ dgFed' = e.dgFed
    /\ dgLeaked' = e.dgLeaked
    /\ wsOpen' = e.wsOpen
    /\ welcome' = e.welcome
    /\ tasks' = e.tasks
    /\ fragLog' = e.fragLog
    /\ cbErrors' = e.cbErrors
    /\ play' = e.play
    /\ codec' = e.codec

\* ------------------------------------------------------------ scheduling

\* The coroutines of the event loop: one handler per connection, one
\* process_agent_response per task.
Handler(c) == <<"handler", c>>
Task(i) == <<"task", i>>

\* asyncio runs what is ready in the order it became ready. A task made by
\* asyncio.create_task is ready at once, so it takes its first step before
\* any coroutine that was resumed since takes another: a coroutine runs at
\* most one step between the creation of a task and that task's first step,
\* and tasks start in the order of their creation.
CanRun(x) ==
    \A i \in 1..Len(tasks) : tasks[i].pc = "scheduled" => x \notin tasks[i].seen

\* The state e, with the step of coroutine x noted in the tasks that wait
\* for their first step.
Ran(x, e) ==
    [ e EXCEPT !.tasks =
        [ i \in DOMAIN e.tasks |->
            IF e.tasks[i].pc = "scheduled"
            THEN [e.tasks[i] EXCEPT !.seen = @ \cup {x}]
            ELSE e.tasks[i] ] ]

\* Coroutine x takes the step to the state e.
Step(x, e) == CanRun(x) /\ Apply(Ran(x, e))

\* --------------------------------------------------------------- helpers
Min(a, b) == IF a < b THEN a ELSE b

\* call_sid in active_calls
InActiveCalls(cid) == cid \in CallIds /\ active_calls[cid] # 0

\* del active_calls[cid]
DelActiveCalls(cid) == [active_calls EXCEPT ![cid] = 0]

\* str.strip(): leading and trailing whitespace removed
RECURSIVE StripLeft(_)
StripLeft(t) == IF t # <<>> /\ Head(t) = " " THEN StripLeft(Tail(t)) ELSE t

RECURSIVE StripRight(_)
StripRight(t) ==
    IF t # <<>> /\ t[Len(t)] = " " THEN StripRight(SubSeq(t, 1, Len(t) - 1)) ELSE t

Strip(t) == StripRight(StripLeft(t))

\* A playback: the mu-law bytes text_to_speech_for_twilio returned and how
\* many of them stream_audio_to_twilio_websocket has sent.
NoPlayback == [audio |-> 0, off |-> 0]

\* A chunk one byte short of chunk_size.
ChunkLenShort(len, off) == Min(chunk_size - 1, len - off)

\* audio_mulaw[i:i+chunk_size]: the length of the chunk that starts at off
ChunkLen(len, off) == Min(chunk_size, len - off)

\* stream_audio_to_twilio_websocket from the chunk at pb.off: the chunk is
\* sent; the result is the playback after it, with "more" when the loop
\* sleeps before the next chunk. A send on a closed socket raises, which
\* send_agent_response catches: the playback is over.
SendChunk(c, pb) ==
    IF pb.off >= pb.audio \/ ~wsOpen[c]
    THEN [pb |-> pb, sent |-> FALSE, more |-> FALSE]
    ELSE LET next == pb.off + ChunkLen(pb.audio, pb.off)
         IN [pb |-> [pb EXCEPT !.off = next], sent |-> TRUE,
             more |-> next < pb.audio]

\* A loop that sends the next chunk without the delay.
AfterSendNoDelay(r) == IF r.more THEN "send" ELSE "done"

\* if i < len(chunks) - 1: await asyncio.sleep(0.02) (services/voice.py
\* lines 362-363): where the loop is after the send that returned r.
AfterSend(r) == IF r.more THEN "sleep" ELSE "done"

\* No call of stream_audio_to_twilio_websocket is followed on its own.
NoCall == [bytes |-> <<>>, off |-> 0, log |-> <<>>, pc |-> "none"]

\* The audio strings played on their own: every length up to MaxAudio, as a
\* ramp (every byte of a chunk differs from its neighbours) and as silence.
AudioStrings ==
    {[k \in 1..n |-> k % 256] : n \in 0..MaxAudio}
        \cup {[k \in 1..n |-> 255] : n \in 0..MaxAudio}

\* A synthesis whose failure still yields audio.
SynthesisAlways(ok, len) == [audio |-> len, off |-> 0]

\* audio_mulaw = await text_to_speech_for_twilio(text) (routes/voice.py line
\* 317) as the playback it starts: len bytes when the call returns; when it
\* raises, stream_audio_to_twilio_websocket is never called (lines 324-327),
\* which is a playback of nothing.
Synthesis(ok, len) == [audio |-> IF ok THEN len ELSE 0, off |-> 0]

\* The state after the module is loaded and the connections are accepted.
InitPipeline ==
    /\ now = 0
    /\ active_calls = [cid \in CallIds |-> 0]
    /\ sessions = <<>>
    /\ persisted = <<>>
    /\ overwrote = <<>>
    /\ hpc = [c \in Conns |-> "idle"]
    /\ call_sid = [c \in Conns |-> None]
    /\ stream_sid = [c \in Conns |-> None]
    /\ deepgram_ws = [c \in Conns |-> None]
    /\ dgFed = [c \in Conns |-> FALSE]
    /\ dgLeaked = [c \in Conns |-> FALSE]
    /\ wsOpen = [c \in Conns |-> TRUE]
    /\ welcome = [c \in Conns |-> NoPlayback]
    /\ tasks = <<>>
    /\ fragLog = <<>>
    /\ cbErrors = 0

\* No audio string is taken through the conversions on its own.
NoConversion ==
    [x |-> <<>>, wide |-> <<>>, back |-> <<>>, wide2 |-> <<>>, back2 |-> <<>>,
     state |-> [fresh |-> TRUE, d |-> 0, prev |-> 0, cur |-> 0], pc |-> "none"]

Init == InitPipeline /\ play = NoCall /\ codec = NoConversion

\* ------------------------------------------------- media_stream_handler

\* A loop that takes the next event while the welcome is still on its way.
HandlerReadyEarly(c) ==
    hpc[c] \in {"idle", "welcome_tts", "welcome_pace"} /\ wsOpen[c]

\* async for message in websocket.iter_text(): the handler takes the next
\* event only when it is suspended in the loop header.
HandlerReady(c) == hpc[c] = "idle" /\ wsOpen[c]

\* The Session dict a start event builds (lines 119-129).
NewSession(c, from, memok) ==
    [ stream_sid        |-> StreamSid(c),
      from_number       |-> from,
      caller            |-> IF memok THEN from ELSE "demo-caller",
      start_time        |-> now,
      transcript        |-> <<>>,
      transcript_buffer |-> <<>>,
      is_processing     |-> FALSE ]

\* active_calls[call_sid] = {...} (line 119): the key is bound to the new
\* object whether or not it was bound before.
RegisterSession(cid, obj) == [active_calls EXCEPT ![cid] = obj]

\* event == 'start' (lines 72-156), up to the await of the welcome's TTS
\* call. dgok: initialize_deepgram_stream returned a connection (lines
\* 144-149); otherwise deepgram_ws keeps the value it had.
StartHandler(c, ev, dgok) ==
    [ St EXCEPT
        !.stream_sid = [stream_sid EXCEPT ![c] = StreamSid(c)],
        !.call_sid = [call_sid EXCEPT ![c] = ev.callSid],
        !.sessions = Append(sessions, NewSession(c, ev.from, ev.memok)),
        !.persisted = Append(persisted, 0),
        !.overwrote = Append(overwrote, active_calls[ev.callSid]),
        !.active_calls = RegisterSession(ev.callSid, Len(sessions) + 1),
        !.deepgram_ws = IF dgok THEN [deepgram_ws EXCEPT ![c] = "open"]
                        ELSE deepgram_ws,
        !.dgFed = IF dgok THEN [dgFed EXCEPT ![c] = FALSE] ELSE dgFed,
        !.dgLeaked = IF dgok
                     THEN [dgLeaked EXCEPT
                              ![c] = @ \/ (deepgram_ws[c] = "open" /\ dgFed[c])]
                     ELSE dgLeaked,
        !.hpc = [hpc EXCEPT ![c] = "welcome_tts"] ]

Start(c, ev, dgok) ==
    /\ HandlerReady(c)
    /\ Len(sessions) < MaxSessions
    /\ Step(Handler(c), StartHandler(c, ev, dgok))

\* The welcome playback went on (r: what SendChunk returned): the handler
\* sleeps before the next chunk, or send_agent_response returns and the
\* handler is back in the loop header.
WelcomeAfterChunk(c, r) ==
    [ St EXCEPT
        !.welcome = [welcome EXCEPT ![c] = IF r.more THEN r.pb ELSE NoPlayback],
        !.hpc = [hpc EXCEPT ![c] = IF r.more THEN "welcome_pace" ELSE "idle"] ]

\* The welcome's text_to_speech_for_twilio returns len bytes or raises
\* (lines 152-156, 313-327); the first chunk is sent at once.
WelcomeTTSDone(c, ok, len) ==
    /\ hpc[c] = "welcome_tts"
    /\ Step(Handler(c), WelcomeAfterChunk(c, SendChunk(c, Synthesis(ok, len))))

\* asyncio.sleep(0.02) returns and the next chunk of the welcome is sent.
WelcomePace(c) ==
    /\ hpc[c] = "welcome_pace"
    /\ Step(Handler(c), WelcomeAfterChunk(c, SendChunk(c, welcome[c])))

\* The handler function returns after an exception the loop does not
\* handle (lines 235-238): nothing is cleaned up, the server closes the socket.
Crash(e, c) ==
    [ e EXCEPT !.hpc = [e.hpc EXCEPT ![c] = "done"],
               !.wsOpen = [e.wsOpen EXCEPT ![c] = FALSE] ]

\* The media branch with the decode ahead of the session check.
MediaHandlerDecodeFirst(c, track, payload, sendok) ==
    IF payload = "malformed"
    THEN Crash(St, c)
    ELSE IF ~InActiveCalls(call_sid[c]) \/ track # "inbound"
    THEN St
    ELSE [ St EXCEPT !.dgFed = [dgFed EXCEPT
                         ![c] = @ \/ (sendok /\ deepgram_ws[c] = "open")] ]

\* event == 'media' (lines 158-179). track: the media.track label;
\* payload: whether base64.b64decode accepts media.payload; sendok: whether
\* deepgram_ws.send returns.
MediaHandler(c, track, payload, sendok) ==
    IF ~InActiveCalls(call_sid[c]) \/ track # "inbound"
    THEN St
    ELSE IF payload = "malformed"
    THEN Crash(St, c)
    ELSE [ St EXCEPT !.dgFed = [dgFed EXCEPT
                         ![c] = @ \/ (sendok /\ deepgram_ws[c] = "open")] ]

Media(c, track, payload, sendok) ==
    /\ HandlerReady(c)
    /\ Step(Handler(c), MediaHandler(c, track, payload, sendok))

\* store_conversation(...) of the stop branch (lines 191-209): one call for
\* the Session object s, whether or not it raises.
Persist(s) == [persisted EXCEPT ![s] = @ + 1]

\* A stop branch that lets the exception of store_conversation out.
StopHandlerPropagates(c, stored) ==
    IF InActiveCalls(call_sid[c])
    THEN IF ~stored
         THEN Crash([ St EXCEPT
                        !.persisted = Persist(active_calls[call_sid[c]]) ], c)
         ELSE IF deepgram_ws[c] # None
         THEN [ St EXCEPT !.persisted = Persist(active_calls[call_sid[c]]),
                          !.hpc = [hpc EXCEPT ![c] = "stop_finish"] ]
         ELSE [ St EXCEPT !.persisted = Persist(active_calls[call_sid[c]]),
                          !.active_calls = DelActiveCalls(call_sid[c]) ]
    ELSE St

\* event == 'stop' (lines 181-219), up to await deepgram_ws.finish().
\* stored: store_conversation did not raise.
StopHandler(c, stored) ==
    IF InActiveCalls(call_sid[c])
    THEN IF deepgram_ws[c] # None
         THEN [ St EXCEPT !.persisted = Persist(active_calls[call_sid[c]]),
                          !.hpc = [hpc EXCEPT ![c] = "stop_finish"] ]
         ELSE [ St EXCEPT !.persisted = Persist(active_calls[call_sid[c]]),
                          !.active_calls = DelActiveCalls(call_sid[c]) ]
    ELSE St

Stop(c, stored) ==
    /\ HandlerReady(c)
    /\ Step(Handler(c), StopHandler(c, stored))

\* deepgram_ws.finish() is over; del active_calls[call_sid] (line 219) raises
\* KeyError when the key went away during the await.
StopFinishDone(c) ==
    /\ hpc[c] = "stop_finish"
    /\ LET closed == [ St EXCEPT
                         !.deepgram_ws = [deepgram_ws EXCEPT ![c] = "closed"] ]
       IN Step(Handler(c),
               IF InActiveCalls(call_sid[c])
               THEN [ closed EXCEPT
                        !.active_calls = DelActiveCalls(call_sid[c]),
                        !.hpc = [hpc EXCEPT ![c] = "idle"] ]
               ELSE Crash(closed, c))

\* event == 'mark' (lines 221-223), or an event the loop has no branch for.
Mark(c) ==
    /\ HandlerReady(c)
    /\ Step(Handler(c), St)

\* A message json.loads rejects, or a start event without its fields: the
\* exception leaves the loop (lines 69-77, 235-238).
BadMessage(c) ==
    /\ HandlerReady(c)
    /\ Step(Handler(c), Crash(St, c))

\* if call_sid and call_sid in active_calls: del active_calls[call_sid]
\* (lines 232-233)
DisconnectCleanup(c) ==
    IF InActiveCalls(call_sid[c]) THEN DelActiveCalls(call_sid[c]) ELSE active_calls

\* The transport closes the socket while the handler waits for a message:
\* except WebSocketDisconnect (lines 225-233), up to await deepgram_ws.finish().
DisconnectHandler(c) ==
    IF deepgram_ws[c] # None
    THEN [ St EXCEPT !.wsOpen = [wsOpen EXCEPT ![c] = FALSE],
                     !.hpc = [hpc EXCEPT ![c] = "disc_finish"] ]
    ELSE [ St EXCEPT !.wsOpen = [wsOpen EXCEPT ![c] = FALSE],
                     !.hpc = [hpc EXCEPT ![c] = "done"],
                     !.active_calls = DisconnectCleanup(c) ]

Disconnect(c) ==
    /\ HandlerReady(c)
    /\ Step(Handler(c), DisconnectHandler(c))

\* deepgram_ws.finish() of the disconnect branch is over.
DiscFinishDone(c) ==
    /\ hpc[c] = "disc_finish"
    /\ Step(Handler(c),
            [ St EXCEPT
                !.deepgram_ws = [deepgram_ws EXCEPT ![c] = "closed"],
                !.hpc = [hpc EXCEPT ![c] = "done"],
                !.active_calls = DisconnectCleanup(c) ])

\* ------------------------------------------------- the Deepgram callback

\* A Deepgram stream this handler opened can still deliver results: the
\* current one, or one an earlier start event of the connection left open.
CanEmit(c) == dgLeaked[c] \/ (deepgram_ws[c] = "open" /\ dgFed[c])

\* asyncio.create_task(process_agent_response(websocket, stream_sid,
\* call_sid, transcript)) (lines 139-141): the arguments are the handler's
\* locals at the time of the callback.
NewTask(c, uid) ==
    [ conn |-> c, stream_sid |-> stream_sid[c], call_sid |-> call_sid[c],
      utt |-> uid, pc |-> "scheduled", seen |-> {}, session |-> 0,
      outcome |-> "none", pb |-> NoPlayback ]

\* A callback that schedules two tasks for one utterance.
OnTranscriptTwice(e, c, transcript, is_final, uid) ==
    IF is_final /\ Strip(transcript) # <<>>
    THEN IF InActiveCalls(call_sid[c])
         THEN [ e EXCEPT
                  !.sessions = [e.sessions EXCEPT
                      ![active_calls[call_sid[c]]].transcript_buffer =
                          Append(@, uid)],
                  !.tasks = e.tasks \o <<NewTask(c, uid), NewTask(c, uid)>> ]
         ELSE [ e EXCEPT !.cbErrors = @ + 1 ]
    ELSE e

\* A callback that tests the transcript without strip().
OnTranscriptNoStrip(e, c, transcript, is_final, uid) ==
    IF is_final /\ transcript # <<>>
    THEN IF InActiveCalls(call_sid[c])
         THEN [ e EXCEPT
                  !.sessions = [e.sessions EXCEPT
                      ![active_calls[call_sid[c]]].transcript_buffer =
                          Append(@, uid)],
                  !.tasks = Append(e.tasks, NewTask(c, uid)) ]
         ELSE [ e EXCEPT !.cbErrors = @ + 1 ]
    ELSE e

\* on_transcript(transcript, is_final) (lines 132-141), on the state e.
\* active_calls[call_sid] is a plain subscript: it raises KeyError when the
\* key is gone.
OnTranscript(e, c, transcript, is_final, uid) ==
    IF is_final /\ Strip(transcript) # <<>>
    THEN IF InActiveCalls(call_sid[c])
         THEN [ e EXCEPT
                  !.sessions = [e.sessions EXCEPT
                      ![active_calls[call_sid[c]]].transcript_buffer =
                          Append(@, uid)],
                  !.tasks = Append(e.tasks, NewTask(c, uid)) ]
         ELSE [ e EXCEPT !.cbErrors = @ + 1 ]
    ELSE e

\* on_message(result) (services/voice.py lines 196-212): empty sentences
\* and interim results never reach on_transcript; a final result reaches it
\* with is_final = result.speech_final.
OnMessage(e, c, r, uid) ==
    IF Len(r.sentence) = 0 \/ ~r.is_final
    THEN e
    ELSE OnTranscript(e, c, r.sentence, r.speech_final, uid)

\* The result r makes on_message call on_transcript with is_final = True
\* and a transcript that is not blank: a finalized utterance.
IsUtterance(r) ==
    /\ Len(r.sentence) # 0 /\ r.is_final
    /\ r.speech_final /\ Strip(r.sentence) # <<>>

\* What the STT service delivered: fragLog keeps, per finalized utterance,
\* the connection and the Session object call_sid named at that moment.
Delivered(c, r) ==
    IF IsUtterance(r)
    THEN Append(fragLog,
                [conn |-> c, call_sid |-> call_sid[c],
                 session |-> IF InActiveCalls(call_sid[c])
                             THEN active_calls[call_sid[c]] ELSE 0])
    ELSE fragLog

\* Deepgram delivers the recognition result r on a stream of connection c.
Fragment(c, r) ==
    /\ CanEmit(c)
    /\ Len(fragLog) < MaxFragments
    /\ Apply(OnMessage([St EXCEPT !.fragLog = Delivered(c, r)], c, r,
                       Len(fragLog) + 1))

\* ------------------------------------------------ process_agent_response

\* The guard of lines 261-264 left out.
TurnLockedNever(s) == FALSE

\* A finally clause that leaves is_processing as it is.
ClearTurnLockNever(ss, s) == ss

\* A drop that logs the utterance as a caller turn all the same.
DropUtteranceLogged(i) ==
    [ St EXCEPT
        !.tasks = [tasks EXCEPT ![i].pc = "done", ![i].seen = {},
                                ![i].outcome = "dropped"],
        !.sessions = [sessions EXCEPT
            ![active_calls[tasks[i].call_sid]].transcript =
                Append(@, [speaker |-> "Customer", utt |-> tasks[i].utt])] ]

\* if session.get('is_processing', False): return (lines 261-264)
TurnLocked(s) == sessions[s].is_processing

\* session['is_processing'] = True (line 266)
SetTurnLock(ss, s) == [ss EXCEPT ![s].is_processing = TRUE]

\* finally: session['is_processing'] = False (lines 294-295), on the Session
\* object the task looked up when it started.
ClearTurnLock(ss, s) == [ss EXCEPT ![s].is_processing = FALSE]

\* A cycle that logs the reply ahead of the utterance.
CycleEntriesReplyFirst(uid, agentok) ==
    IF agentok
    THEN << [speaker |-> "Agent", utt |-> uid],
            [speaker |-> "Customer", utt |-> uid] >>
    ELSE << [speaker |-> "Customer", utt |-> uid] >>

\* The entries an accepted cycle appends to session['transcript'] (lines
\* 270, 277): the agent's only when agent.run returned.
CycleEntries(uid, agentok) ==
    IF agentok
    THEN << [speaker |-> "Customer", utt |-> uid],
            [speaker |-> "Agent", utt |-> uid] >>
    ELSE << [speaker |-> "Customer", utt |-> uid] >>

\* if call_sid not in active_calls: return (lines 256-257)
SessionGone(i) ==
    [ St EXCEPT !.tasks = [tasks EXCEPT ![i].pc = "done", ![i].seen = {},
                                        ![i].outcome = "absent"] ]

\* The return of lines 262-264: the task ends, the utterance goes nowhere.
DropUtterance(i) ==
    [ St EXCEPT !.tasks = [tasks EXCEPT ![i].pc = "done", ![i].seen = {},
                                        ![i].outcome = "dropped"] ]

\* A cycle that ends at once, without playback, when agent.run raises.
TaskStartHandlerSilent(i, agentok) ==
    LET t == tasks[i]
        s == active_calls[t.call_sid]
    IN IF ~InActiveCalls(t.call_sid)
       THEN SessionGone(i)
       ELSE IF TurnLocked(s)
       THEN DropUtterance(i)
       ELSE [ St EXCEPT
                !.tasks = [tasks EXCEPT
                    ![i].pc = IF agentok THEN "tts" ELSE "done",
                    ![i].session = s, ![i].seen = {},
                    ![i].outcome = IF agentok THEN "reply" ELSE "fallback"],
                !.sessions = [(IF agentok THEN SetTurnLock(sessions, s)
                               ELSE sessions) EXCEPT
                    ![s].transcript = @ \o CycleEntries(t.utt, agentok)] ]

\* process_agent_response from its first line to the await of the TTS call
\* (lines 256-280, or 282-290 when agent.run raises). agentok: agent.run
\* returned.
TaskStartHandler(i, agentok) ==
    LET t == tasks[i]
        s == active_calls[t.call_sid]
    IN IF ~InActiveCalls(t.call_sid)
       THEN SessionGone(i)
       ELSE IF TurnLocked(s)
       THEN DropUtterance(i)
       ELSE [ St EXCEPT
                !.tasks = [tasks EXCEPT
                    ![i].pc = "tts", ![i].session = s, ![i].seen = {},
                    ![i].outcome = IF agentok THEN "reply" ELSE "fallback"],
                !.sessions = [SetTurnLock(sessions, s) EXCEPT
                    ![s].transcript = @ \o CycleEntries(t.utt, agentok)] ]

\* A ready queue that hands out any task that is ready.
ReadyFirstAny(i) == tasks[i].pc = "scheduled"

\* The task asyncio.create_task made (lines 139-141) is at the head of the
\* loop's ready queue: it has not started and every task made before it has.
ReadyFirst(i) ==
    /\ tasks[i].pc = "scheduled"
    /\ \A j \in 1..(i - 1) : tasks[j].pc # "scheduled"

TaskStart(i, agentok) ==
    /\ i \in 1..Len(tasks)
    /\ ReadyFirst(i)
    /\ Step(Task(i), TaskStartHandler(i, agentok))

\* A cycle that takes its session out of the registry when its playback
\* ends without a frame.
TaskAfterChunkRemoves(i, r) ==
    IF r.more
    THEN [ St EXCEPT !.tasks = [tasks EXCEPT ![i].pc = "pace", ![i].pb = r.pb] ]
    ELSE [ St EXCEPT
             !.tasks = [tasks EXCEPT ![i].pc = "done", ![i].pb = NoPlayback],
             !.sessions = ClearTurnLock(sessions, tasks[i].session),
             !.active_calls = IF r.sent THEN active_calls
                              ELSE DelActiveCalls(tasks[i].call_sid) ]

\* A finally clause that looks the session up again by its call id.
TaskAfterChunkByCallId(i, r) ==
    IF r.more
    THEN [ St EXCEPT !.tasks = [tasks EXCEPT ![i].pc = "pace", ![i].pb = r.pb] ]
    ELSE [ St EXCEPT
             !.tasks = [tasks EXCEPT ![i].pc = "done", ![i].pb = NoPlayback],
             !.sessions = IF InActiveCalls(tasks[i].call_sid)
                          THEN ClearTurnLock(sessions,
                                             active_calls[tasks[i].call_sid])
                          ELSE sessions ]

\* The cycle's playback went on (r: what SendChunk returned): the task
\* sleeps before the next chunk, or send_agent_response returns and the
\* finally clause runs.
TaskAfterChunk(i, r) ==
    IF r.more
    THEN [ St EXCEPT !.tasks = [tasks EXCEPT ![i].pc = "pace", ![i].pb = r.pb] ]
    ELSE [ St EXCEPT
             !.tasks = [tasks EXCEPT ![i].pc = "done", ![i].pb = NoPlayback],
             !.sessions = ClearTurnLock(sessions, tasks[i].session) ]

\* text_to_speech_for_twilio returns len bytes or raises (lines 313-327);
\* a failure is caught inside send_agent_response, so the caller sees none.
TaskTTSDone(i, ok, len) ==
    /\ i \in 1..Len(tasks)
    /\ tasks[i].pc = "tts"
    /\ Step(Task(i), TaskAfterChunk(i, SendChunk(tasks[i].conn,
                                                 Synthesis(ok, len))))

\* asyncio.sleep(0.02) returns and the next chunk of the reply is sent.
TaskPace(i) ==
    /\ i \in 1..Len(tasks)
    /\ tasks[i].pc = "pace"
    /\ Step(Task(i), TaskAfterChunk(i, SendChunk(tasks[i].conn, tasks[i].pb)))

\* ------------------------------ stream_audio_to_twilio_websocket alone

\* stream_audio_to_twilio_websocket(websocket, stream_sid, audio_mulaw) is
\* called with one of the audio strings on the open socket of connection 1.
PlayInit ==
    /\ InitPipeline
    /\ codec = NoConversion
    /\ play \in {[bytes |-> b, off |-> 0, log |-> <<>>, pc |-> "send"] :
                    b \in AudioStrings}

\* The events of the call, in order: a frame sent with its payload, or a
\* delay taken.
FrameSent(payload) == [kind |-> "frame", payload |-> payload]
DelayTaken == [kind |-> "sleep", payload |-> <<>>]

\* The next chunk, if there is one, is sent (lines 345-358) and the loop
\* goes to its delay or ends (lines 362-365).
PlaySend ==
    /\ play.pc = "send"
    /\ LET r == SendChunk(1, [audio |-> Len(play.bytes), off |-> play.off])
       IN Apply([St EXCEPT !.play =
              [play EXCEPT
                 !.off = r.pb.off,
                 !.log = IF r.sent
                         THEN Append(@, FrameSent(SubSeq(play.bytes,
                                                   play.off + 1, r.pb.off)))
                         ELSE @,
                 !.pc = AfterSend(r)]])

\* await asyncio.sleep(0.02) (line 363)
PlaySleep ==
    /\ play.pc = "sleep"
    /\ Apply([St EXCEPT !.play = [play EXCEPT !.log = Append(@, DelayTaken),
                                              !.pc = "send"]])

\* ------------------------------------------- mulaw_to_pcm, pcm_to_mulaw

\* Linear PCM is a sequence of 16-bit samples, two bytes each; mu-law audio
\* is a sequence of bytes, one per sample.

\* The quotient rounded toward zero, as the cast of a double to int does.
TruncDiv(a, b) == IF a >= 0 THEN a \div b ELSE -((-a) \div b)

RECURSIVE Gcd(_, _)
Gcd(a, b) == IF b = 0 THEN a ELSE Gcd(b, a % b)

RECURSIVE Pow2(_)
Pow2(n) == IF n = 0 THEN 1 ELSE 2 * Pow2(n - 1)

\* audioop.ulaw2lin(mulaw_data, 2) (services/voice.py line 34): every byte
\* is decoded to one 16-bit sample (the bits inverted, then sign, exponent
\* and mantissa).
ulaw2lin(bytes) ==
    [ k \in 1..Len(bytes) |->
        LET v == 255 - bytes[k]
            t == (((v % 16) * 8) + 132) * Pow2((v \div 16) % 8)
        IN IF v \div 128 = 1 THEN 132 - t ELSE t - 132 ]

\* The segment of a biased magnitude: the first end point it does not exceed.
Segment(m) ==
    LET ends == <<63, 127, 255, 511, 1023, 2047, 4095, 8191>>
    IN IF m > 8191 THEN 8
       ELSE CHOOSE g \in 0..7 :
                /\ m <= ends[g + 1]
                /\ \A h \in 0..(g - 1) : m > ends[h + 1]

\* audioop.lin2ulaw(pcm_8khz, 2) (line 77): every 16-bit sample is encoded
\* to one byte, from its 14 high bits.
lin2ulaw(samples) ==
    [ k \in 1..Len(samples) |->
        LET val == samples[k] \div 4
            mag == (IF val < 0 THEN -val ELSE val)
            m == (IF mag > 8159 THEN 8159 ELSE mag) + 33
            seg == Segment(m)
            mask == IF val < 0 THEN 127 ELSE 255
        IN IF seg >= 8 THEN mask - 127
           ELSE mask - (seg * 16 + ((m \div Pow2(seg + 1)) % 16)) ]

\* The state value None of audioop.ratecv, and a state a call returned.
FreshState == [fresh |-> TRUE, d |-> 0, prev |-> 0, cur |-> 0]

\* The output sample of audioop.ratecv between the input samples prev and
\* cur. The library holds a sample s as s * 2^16, divides the weighted sum
\* by outr with the result rounded toward zero, and shifts it right by 16
\* bits: with w = prev * d + cur * (outr - d), q the quotient of w by outr
\* rounded toward zero and r the remainder, that is q * 2^16 plus the
\* quotient of r * 2^16, shifted right.
Interpolated(prev, cur, d, outr) ==
    LET w == prev * d + cur * (outr - d)
        q == TruncDiv(w, outr)
        r == w - q * outr
    IN ((q * 65536 + TruncDiv(r * 65536, outr)) \div 65536)

\* The loop of audioop.ratecv over the samples from position k on: while d
\* is negative the next input sample is taken, while it is not an output
\* sample is interpolated between the last two input samples.
RECURSIVE RatecvLoop(_, _, _, _, _)
RatecvLoop(frag, k, inr, outr, a) ==
    IF a.d < 0
    THEN IF k > Len(frag)
         THEN a
         ELSE RatecvLoop(frag, k + 1, inr, outr,
                         [a EXCEPT !.prev = a.cur, !.cur = frag[k],
                                   !.d = a.d + outr])
    ELSE RatecvLoop(frag, k, inr, outr,
                    [a EXCEPT
                       !.out = Append(@, Interpolated(a.prev, a.cur, a.d, outr)),
                       !.d = a.d - inr])

\* audioop.ratecv(fragment, 2, 1, inrate, outrate, state): the output
\* samples and the state the call returns.
ratecv(frag, inrate, outrate, state) ==
    LET g == Gcd(inrate, outrate)
        inr == inrate \div g
        outr == outrate \div g
        a == RatecvLoop(frag, 1, inr, outr,
                 [out |-> <<>>,
                  d |-> IF state.fresh THEN -outr ELSE state.d,
                  prev |-> IF state.fresh THEN 0 ELSE state.prev,
                  cur |-> IF state.fresh THEN 0 ELSE state.cur])
    IN [out |-> a.out,
        state |-> [fresh |-> FALSE, d |-> a.d, prev |-> a.prev, cur |-> a.cur]]

\* A conversion that goes on from the state the last call returned.
StateArgumentKept(last) == last

\* The state argument of both ratecv calls is None (lines 43 and 71); the
\* state a call returns is dropped (the "_" of lines 37 and 65).
StateArgument(last) == FreshState

\* mulaw_to_pcm(mulaw_data) (lines 20-46), with the state ratecv returned.
mulaw_to_pcm_call(mulaw_data, last) ==
    ratecv(ulaw2lin(mulaw_data), 8000, 16000, StateArgument(last))

mulaw_to_pcm(mulaw_data) == mulaw_to_pcm_call(mulaw_data, FreshState).out

\* pcm_to_mulaw(pcm_data, sample_rate) (lines 49-79), with the state ratecv
\* returned.
pcm_to_mulaw_call(pcm_data, sample_rate, last) ==
    LET r == IF sample_rate # 8000
             THEN ratecv(pcm_data, sample_rate, 8000, StateArgument(last))
             ELSE [out |-> pcm_data, state |-> last]
    IN [out |-> lin2ulaw(r.out), state |-> r.state]

pcm_to_mulaw(pcm_data, sample_rate) ==
    pcm_to_mulaw_call(pcm_data, sample_rate, FreshState).out

\* The bytes of the audio strings converted on their own: the loudest
\* negative and positive samples, both zeros and two in between.
UlawBytes == {0, 127, 128, 200, 255}

RECURSIVE StringsOver(_, _)
StringsOver(B, n) ==
    IF n = 0 THEN {<<>>}
    ELSE LET shorter == StringsOver(B, n - 1)
         IN shorter \cup {Append(t, b) : t \in {u \in shorter : Len(u) = n - 1},
                                           b \in B}

UlawStrings == StringsOver(UlawBytes, MaxSamples)

\* One audio string is about to be converted, as test_audio_conversion does
\* (test_voice_pipeline.py lines 34-51).
CodecInit ==
    /\ InitPipeline
    /\ play = NoCall
    /\ codec \in {[NoConversion EXCEPT !.x = b, !.pc = "decode"] :
                     b \in UlawStrings}

\* pcm_audio = mulaw_to_pcm(test_mulaw)
CodecDecode ==
    /\ codec.pc = "decode"
    /\ LET r == mulaw_to_pcm_call(codec.x, codec.state)
       IN Apply([St EXCEPT !.codec = [codec EXCEPT !.wide = r.out,
                                                  !.state = r.state,
                                                  !.pc = "decode_again"]])

\* mulaw_to_pcm is called once more with the same bytes.
CodecDecodeAgain ==
    /\ codec.pc = "decode_again"
    /\ LET r == mulaw_to_pcm_call(codec.x, codec.state)
       IN Apply([St EXCEPT !.codec = [codec EXCEPT !.wide2 = r.out,
                                                  !.state = r.state,
                                                  !.pc = "encode"]])

\* mulaw_audio = pcm_to_mulaw(pcm_audio, sample_rate=16000)
CodecEncode ==
    /\ codec.pc = "encode"
    /\ LET r == pcm_to_mulaw_call(codec.wide, 16000, codec.state)
       IN Apply([St EXCEPT !.codec = [codec EXCEPT !.back = r.out,
                                                  !.state = r.state,
                                                  !.pc = "encode_again"]])

\* pcm_to_mulaw is called once more with the same samples.
CodecEncodeAgain ==
    /\ codec.pc = "encode_again"
    /\ LET r == pcm_to_mulaw_call(codec.wide, 16000, codec.state)
       IN Apply([St EXCEPT !.codec = [codec EXCEPT !.back2 = r.out,
                                                  !.state = r.state,
                                                  !.pc = "done"]])

\* ------------------------------------------------ the duration of a call

\* The step of the clock, in milliseconds.
TickMs == 100

\* duration = int((datetime.now() - session['start_time']).total_seconds())
\* (line 194), for the Session object s: the seconds as a float, cut to an
\* integer toward zero.
Duration(s) == TruncDiv(now - sessions[s].start_time, 1000)

\* Time passes between two steps of the event loop. The clock is taken not
\* to be set back during a call.
Tick ==
    /\ now + TickMs <= MaxClock
    /\ Apply([St EXCEPT !.now = now + TickMs])

\* ------------------------------------------------------------- claims

SessionIds == 1..Len(sessions)

\* The task is inside the guarded section of process_agent_response: it
\* set is_processing and has not reached the finally clause.
InCycle(i) == tasks[i].pc \in {"tts", "pace"}

\* The tasks inside their guarded section on the Session object s.
CyclesOn(s) == {i \in 1..Len(tasks) : InCycle(i) /\ tasks[i].session = s}

\* No start event arrived for a call id that had a session.
NoOverwrite == \A s \in SessionIds : overwrote[s] = 0

\* C1 as stated: at any instant at most one cycle is inside the guarded
\* section per call id. Stated for the runs without a duplicate start, so
\* that a violation does not rest on C2.
C1_OneCyclePerCallId ==
    NoOverwrite =>
        \A i, j \in 1..Len(tasks) :
            (i # j /\ InCycle(i) /\ InCycle(j)) =>
                tasks[i].call_sid # tasks[j].call_sid

\* C1 as amended: at any instant at most one cycle is inside the guarded
\* section per Session object, and is_processing is true exactly while one is.
C1_OneCyclePerSession ==
    \A s \in SessionIds :
        Cardinality(CyclesOn(s)) = IF sessions[s].is_processing THEN 1 ELSE 0

\* C1's case: an utterance arrived while a cycle was in flight on the same
\* session, and the cycle is still in flight.
C1_Witness ==
    \E i, j \in 1..Len(tasks) :
        /\ InCycle(i)
        /\ tasks[j].outcome = "dropped"
        /\ tasks[j].call_sid = tasks[i].call_sid
        /\ active_calls[tasks[i].call_sid] = tasks[i].session

\* C2: a start event for a call id that has a session leaves the id bound
\* to that session.
C2_DuplicateStartIgnored ==
    [][\A cid \in CallIds :
          (active_calls[cid] # 0 /\ active_calls'[cid] # 0) =>
              active_calls'[cid] = active_calls[cid]]_vars

\* C3, first part: is_processing of a session goes from false to true only
\* in the step in which a task accepts an utterance on that session.
C3_LockSetOnlyByAccept ==
    [][\A s \in SessionIds :
          (~sessions[s].is_processing /\ sessions'[s].is_processing) =>
              \E i \in 1..Len(tasks) :
                  /\ tasks[i].pc = "scheduled"
                  /\ active_calls[tasks[i].call_sid] = s
                  /\ tasks'[i].pc = "tts"
                  /\ tasks'[i].session = s]_vars

\* The Session object s exists and its is_processing is true.
LockHeld(s) == s \in SessionIds /\ sessions[s].is_processing

\* C3, second part: under fair scheduling of the tasks a session whose
\* is_processing is true gets it back to false, whatever agent.run, the TTS
\* call and the sends do.
C3_LockEventuallyCleared ==
    \A s \in 1..MaxSessions :
        LockHeld(s) ~> ~LockHeld(s)

\* C3, third part: a task that starts on a live session whose is_processing
\* is false is accepted.
C3_AcceptedWhenClear ==
    \A i \in 1..Len(tasks), agentok \in BOOLEAN :
        ( /\ tasks[i].pc = "scheduled"
          /\ InActiveCalls(tasks[i].call_sid)
          /\ ~sessions[active_calls[tasks[i].call_sid]].is_processing ) =>
            LET e == TaskStartHandler(i, agentok)
            IN /\ e.tasks[i].pc = "tts"
               /\ e.tasks[i].session = active_calls[tasks[i].call_sid]
               /\ e.sessions[e.tasks[i].session].is_processing

\* C3: turn_lock is set only by an accept, every accepted cycle clears it
\* again, success or failure, and a later utterance is accepted again.
C3_TurnLockSetAndCleared ==
    /\ C3_LockSetOnlyByAccept
    /\ C3_LockEventuallyCleared
    /\ []C3_AcceptedWhenClear

\* C3's case: a cycle whose response generation failed is over, and a later
\* utterance was accepted on the same session.
C3_Witness ==
    \E i, j \in 1..Len(tasks) :
        /\ i < j
        /\ tasks[i].pc = "done" /\ tasks[i].outcome = "fallback"
        /\ tasks[j].session = tasks[i].session
        /\ tasks[j].outcome \in {"reply", "fallback"}

\* The entries of every transcript that came from the utterance uid.
EntriesOf(uid) ==
    { p \in SessionIds \X (1..(2 * MaxFragments)) :
        /\ p[2] <= Len(sessions[p[1]].transcript)
        /\ sessions[p[1]].transcript[p[2]].utt = uid }

C5_PersistedAtMostOnce ==
    NoOverwrite => \A s \in SessionIds : persisted[s] <= 1

\* C6: when a handler ends in a step that removes its session from the
\* registry, store_conversation has been called for that session.
C6_DisconnectPersists ==
    [][\A c \in Conns :
          ( /\ hpc[c] # "done" /\ hpc'[c] = "done"
            /\ InActiveCalls(call_sid[c])
            /\ active_calls'[call_sid[c]] = 0 ) =>
              persisted'[active_calls[call_sid[c]]] >= 1]_vars

\* C7: a media event that finds no session under the handler's call id
\* changes nothing, whatever its track and payload: nothing reaches the
\* Deepgram stream, no session appears or changes, and the handler does not
\* leave its loop.
C7_MediaWithoutSessionDiscarded ==
    \A c \in Conns, track \in {"inbound", "outbound"},
       payload \in {"ok", "malformed"}, sendok \in BOOLEAN :
        (HandlerReady(c) /\ ~InActiveCalls(call_sid[c])) =>
            MediaHandler(c, track, payload, sendok) = St

\* C7's case: the handler is back in its loop after a stop that removed the
\* session and closed the stream, so a late media event can arrive.
C7_Witness ==
    \E c \in Conns :
        /\ HandlerReady(c)
        /\ call_sid[c] # None
        /\ ~InActiveCalls(call_sid[c])
        /\ deepgram_ws[c] = "closed"

\* C8: on_transcript never raises, also when it runs after the session of
\* its call id was removed. Stated for the runs without a duplicate start.
C8_CallbackNeverRaises == NoOverwrite => cbErrors = 0

\* C9: from the start event until send_agent_response has returned for the
\* welcome, the handler takes no media event: nothing is forwarded to the
\* Deepgram stream, the handler neither ends nor changes its call id, and
\* frames of the welcome are sent only in that span.
C9_WelcomeBeforeMedia ==
    [][\A c \in Conns :
          /\ hpc[c] \in {"welcome_tts", "welcome_pace"} =>
                /\ dgFed'[c] = dgFed[c]
                /\ deepgram_ws'[c] = deepgram_ws[c]
                /\ call_sid'[c] = call_sid[c]
                /\ hpc'[c] \in {"welcome_tts", "welcome_pace", "idle"}
          /\ welcome'[c] # welcome[c] =>
                hpc[c] \in {"welcome_tts", "welcome_pace"}]_vars

\* C9's case: the first frame of the welcome is out, the next one waits for
\* its pacing delay, and the open Deepgram stream has received nothing.
C9_Witness ==
    \E c \in Conns :
        /\ hpc[c] = "welcome_pace"
        /\ welcome[c].off = chunk_size
        /\ deepgram_ws[c] = "open"
        /\ ~dgFed[c]

\* The tasks scheduled for the utterance uid.
TasksOf(uid) == {i \in 1..Len(tasks) : tasks[i].utt = uid}

\* The caller turns logged for the utterance uid.
CallerTurnsOf(uid) ==
    { p \in EntriesOf(uid) :
        sessions[p[1]].transcript[p[2]].speaker = "Customer" }

\* C10 as stated: every finalized utterance delivered for a live session is
\* handed to process_agent_response exactly once and, once that task has
\* run, is logged as a caller turn exactly once.
C10_LoggedAndHandedOnce ==
    \A u \in 1..Len(fragLog) :
        fragLog[u].session # 0 =>
            /\ Cardinality(TasksOf(u)) = 1
            /\ \A i \in TasksOf(u) :
                  tasks[i].pc # "scheduled" => Cardinality(CallerTurnsOf(u)) = 1

\* C10 as amended: every finalized utterance delivered for a live session
\* is put on that session's transcript_buffer once and handed to
\* process_agent_response exactly once; it is logged as a caller turn once,
\* on the session that accepts it, when the task is accepted, and never
\* when the task is dropped or finds no session.
C10_HandedOnceLoggedIfAccepted ==
    \A u \in 1..Len(fragLog) :
        fragLog[u].session # 0 =>
            /\ Cardinality(TasksOf(u)) = 1
            /\ Cardinality({k \in 1..Len(sessions[fragLog[u].session].transcript_buffer) :
                   sessions[fragLog[u].session].transcript_buffer[k] = u}) = 1
            /\ \A i \in TasksOf(u) :
                  /\ tasks[i].conn = fragLog[u].conn
                  /\ tasks[i].call_sid = fragLog[u].call_sid
                  /\ IF tasks[i].outcome \in {"reply", "fallback"}
                     THEN /\ Cardinality(CallerTurnsOf(u)) = 1
                          /\ \A p \in CallerTurnsOf(u) : p[1] = tasks[i].session
                     ELSE CallerTurnsOf(u) = {}

\* C10's case: one utterance was accepted and logged, another one, delivered
\* for a live session as well, was dropped.
C10_Witness ==
    \E u, v \in 1..Len(fragLog) :
        /\ fragLog[u].session # 0 /\ fragLog[v].session # 0
        /\ \E i \in TasksOf(u) : tasks[i].outcome = "reply"
        /\ \E j \in TasksOf(v) : tasks[j].outcome = "dropped"

\* The transcripts Deepgram may deliver.
Sentences == {r.sentence : r \in Results}

\* C11: a call of on_transcript with is_final = False, or with a transcript
\* that is empty or blank, changes nothing (no buffer, no transcript, no
\* is_processing, no task), and so does an interim or blank result that
\* reaches on_message, in every state and for every connection.
C11_InterimOrBlankChangesNothing ==
    \A c \in Conns :
        /\ \A t \in Sentences \cup {<<>>}, f \in BOOLEAN :
              (~f \/ Strip(t) = <<>>) =>
                  OnTranscript(St, c, t, f, Len(fragLog) + 1) = St
        /\ \A r \in Results :
              (~r.is_final \/ ~r.speech_final \/ Strip(r.sentence) = <<>>) =>
                  /\ OnMessage(St, c, r, Len(fragLog) + 1) = St
                  /\ Delivered(c, r) = fragLog

\* C11's case: a stream can deliver a result for a live session that has a
\* cycle in flight and a logged turn, so that a change would show.
C11_Witness ==
    \E c \in Conns :
        /\ CanEmit(c)
        /\ Len(fragLog) < MaxFragments
        /\ InActiveCalls(call_sid[c])
        /\ sessions[active_calls[call_sid[c]]].is_processing
        /\ sessions[active_calls[call_sid[c]]].transcript # <<>>

\* C12: a step of a process_agent_response task, whatever agent.run, the
\* TTS call and the sends do, leaves the registry, every handler's position
\* and socket and every Deepgram stream as they are; and a call id leaves
\* the registry only in a stop or disconnect step of a handler whose call id
\* it is.
C12_CycleFailureKeepsSession ==
    [][/\ (\E i \in 1..Len(tasks) :
              tasks'[i].pc # tasks[i].pc \/ tasks'[i].pb # tasks[i].pb) =>
                /\ active_calls' = active_calls
                /\ hpc' = hpc
                /\ wsOpen' = wsOpen
                /\ deepgram_ws' = deepgram_ws
       /\ \A cid \in CallIds :
              (active_calls[cid] # 0 /\ active_calls'[cid] = 0) =>
                  \E c \in Conns :
                      /\ call_sid[c] = cid
                      /\ \/ /\ hpc[c] = "idle"
                            /\ persisted' # persisted \/ hpc'[c] = "done"
                         \/ hpc[c] = "stop_finish" /\ hpc'[c] = "idle"
                         \/ hpc[c] = "disc_finish" /\ hpc'[c] = "done"]_vars

\* C12's case: a cycle whose response generation failed is over; its session
\* is still registered and its handler still in the receive loop.
C12_Witness ==
    \E i \in 1..Len(tasks) :
        /\ tasks[i].pc = "done" /\ tasks[i].outcome = "fallback"
        /\ active_calls[tasks[i].call_sid] = tasks[i].session
        /\ HandlerReady(tasks[i].conn)

\* C13: an inbound media event whose payload base64.b64decode rejects
\* leaves the handler in its receive loop with its socket open, so that the
\* next media or stop event of the connection is handled.
C13_MalformedPayloadDropped ==
    \A c \in Conns, sendok \in BOOLEAN :
        (HandlerReady(c) /\ InActiveCalls(call_sid[c])) =>
            LET e == MediaHandler(c, "inbound", "malformed", sendok)
            IN /\ e.hpc[c] = "idle"
               /\ e.wsOpen[c]
               /\ e.active_calls = active_calls

\* C14: when agent.run raises in an accepted cycle, the cycle goes on to
\* send_agent_response with the fallback phrase (outcome "fallback": it
\* waits for the TTS call of that phrase, with only the caller turn logged),
\* and the step that ends the cycle leaves is_processing of its session
\* false.
C14_FallbackThenLockCleared ==
    /\ [](\A i \in 1..Len(tasks) :
            ( /\ tasks[i].pc = "scheduled"
              /\ InActiveCalls(tasks[i].call_sid)
              /\ ~sessions[active_calls[tasks[i].call_sid]].is_processing ) =>
                LET e == TaskStartHandler(i, FALSE)
                    s == active_calls[tasks[i].call_sid]
                IN /\ e.tasks[i].pc = "tts"
                   /\ e.tasks[i].outcome = "fallback"
                   /\ e.sessions[s].transcript =
                          Append(sessions[s].transcript,
                                 [speaker |-> "Customer", utt |-> tasks[i].utt]))
    /\ [][\A i \in 1..Len(tasks) :
            (InCycle(i) /\ tasks[i].outcome = "fallback" /\ tasks'[i].pc = "done")
                => ~sessions'[tasks[i].session].is_processing]_vars

\* C14's case: the cycle of a failed agent.run has sent the first frame of
\* the fallback phrase and waits to send the next.
C14_Witness ==
    \E i \in 1..Len(tasks) :
        /\ tasks[i].outcome = "fallback"
        /\ tasks[i].pc = "pace"
        /\ tasks[i].pb.off = chunk_size

\* C15: when the TTS call of a cycle raises, no frame is sent, the cycle
\* ends in that step with is_processing of its session false and nothing
\* else changed (the registry, the handlers and the transcripts stay as they
\* are, the outcome does not turn into a fallback), and an utterance that
\* starts on a live session whose is_processing is false is accepted.
C15_SynthesisFailureEndsCycle ==
    /\ \A i \in 1..Len(tasks), len \in AudioLens :
          tasks[i].pc = "tts" =>
              LET r == SendChunk(tasks[i].conn, Synthesis(FALSE, len))
                  e == TaskAfterChunk(i, r)
              IN /\ ~r.sent /\ ~r.more
                 /\ e.tasks[i].pc = "done"
                 /\ e.tasks[i].outcome = tasks[i].outcome
                 /\ e = [St EXCEPT
                           !.tasks = [tasks EXCEPT ![i].pc = "done"],
                           !.sessions = [sessions EXCEPT
                               ![tasks[i].session].is_processing = FALSE]]
    /\ C3_AcceptedWhenClear

\* C15's case: a cycle waits for its TTS call while its session is
\* registered and the socket is open, so that audio would be sent.
C15_Witness ==
    \E i \in 1..Len(tasks) :
        /\ tasks[i].pc = "tts"
        /\ tasks[i].outcome = "reply"
        /\ wsOpen[tasks[i].conn]
        /\ active_calls[tasks[i].call_sid] = tasks[i].session

\* C16: after a start event whose initialize_deepgram_stream raised, the
\* handler holds no open stream, so no later media event is forwarded.
C16_NoStreamAfterFailedInit ==
    \A c \in Conns, ev \in StartEvents :
        HandlerReady(c) => StartHandler(c, ev, FALSE).deepgram_ws[c] # "open"

\* What holds of C16: a start event whose initialize_deepgram_stream raised
\* still creates and registers the session and goes on to the welcome, and
\* leaves the handler's stream handle as it was (none on the first start of
\* a connection); an inbound media event of a live session is handled
\* without change and without leaving the loop when the handler holds no
\* open stream or when the forward fails; and a handler gets an open stream
\* only in the step of a start event.
C16_DegradedWithoutStream ==
    /\ [](\A c \in Conns, ev \in StartEvents :
            HandlerReady(c) =>
                LET e == StartHandler(c, ev, FALSE)
                IN /\ e.active_calls[ev.callSid] = Len(sessions) + 1
                   /\ Len(e.sessions) = Len(sessions) + 1
                   /\ e.hpc[c] = "welcome_tts"
                   /\ e.deepgram_ws[c] = deepgram_ws[c])
    /\ [](\A c \in Conns, sendok \in BOOLEAN :
            (HandlerReady(c) /\ InActiveCalls(call_sid[c])) =>
                /\ deepgram_ws[c] # "open" =>
                      MediaHandler(c, "inbound", "ok", sendok) = St
                /\ MediaHandler(c, "inbound", "ok", FALSE) = St)
    /\ [][\A c \in Conns :
            (deepgram_ws[c] # "open" /\ deepgram_ws'[c] = "open") =>
                (hpc[c] = "idle" /\ hpc'[c] = "welcome_tts")]_vars

\* The welcome of a start event is over, the session is live and the
\* handler holds no stream.
C16_NoStreamReached ==
    \E c \in Conns :
        /\ HandlerReady(c)
        /\ InActiveCalls(call_sid[c])
        /\ sessions[active_calls[call_sid[c]]].stream_sid = StreamSid(c)
        /\ deepgram_ws[c] = None

\* The payloads of the frames in the log, in order.
Frames(log) == SelectSeq(log, LAMBDA ev : ev.kind = "frame")

\* The payloads of the frames joined end to end.
RECURSIVE Joined(_)
Joined(fs) == IF fs = <<>> THEN <<>> ELSE Head(fs).payload \o Joined(Tail(fs))

\* C17: the frames sent so far join to the bytes of the input up to the
\* offset reached, and to the whole input when the call is over; every
\* frame holds at least one byte and at most chunk_size = 160, every frame
\* but the last one of the call holds exactly 160, and an empty input sends
\* no frame.
C17_FramesJoinToInput ==
    LET fs == Frames(play.log)
    IN play.pc # "none" =>
        /\ Joined(fs) = SubSeq(play.bytes, 1, play.off)
        /\ play.pc = "done" => Joined(fs) = play.bytes
        /\ \A k \in 1..Len(fs) :
              /\ Len(fs[k].payload) \in 1..chunk_size
              /\ (k < Len(fs) \/ play.pc # "done") =>
                    Len(fs[k].payload) = chunk_size \/ play.off = Len(play.bytes)
              /\ k < Len(fs) => Len(fs[k].payload) = chunk_size
        /\ (play.bytes = <<>> /\ play.pc = "done") => play.log = <<>>

\* C17's case: an input of two full chunks and one byte was sent to its end,
\* in three frames.
C17_Witness ==
    /\ play.pc = "done"
    /\ Len(play.bytes) = 2 * chunk_size + 1
    /\ Len(Frames(play.log)) = 3

\* C18: in the order of the call's events every frame but the last is
\* followed at once by a delay and every delay by a frame, so two frames
\* are never sent without a delay between them; and the call ends on a
\* frame, with no delay after it.
C18_DelayBetweenFrames ==
    LET log == play.log
    IN /\ \A k \in 1..(Len(log) - 1) :
             /\ log[k].kind = "frame" => log[k + 1].kind = "sleep"
             /\ log[k].kind = "sleep" => log[k + 1].kind = "frame"
       /\ log # <<>> => log[1].kind = "frame"
       /\ (play.pc = "done" /\ log # <<>>) => log[Len(log)].kind = "frame"
       /\ (log # <<>> /\ log[Len(log)].kind = "sleep") => play.pc = "send"
       /\ play.pc = "sleep" => play.off < Len(play.bytes)

\* C18's case: a call of three frames is over, with its two delays taken.
C18_Witness ==
    /\ play.pc = "done"
    /\ Len(play.log) = 5
    /\ Len(SelectSeq(play.log, LAMBDA ev : ev.kind = "sleep")) = 2

\* C19: response generation does not hold the event loop, so that a media
\* event can be handled while it runs: the step in which a task sets
\* is_processing ends before agent.run has returned, that is, it logs the
\* caller turn and no agent reply.
C19_GenerationLeavesLoopFree ==
    [][\A i \in 1..Len(tasks) :
          (tasks[i].pc = "scheduled" /\ tasks'[i].pc = "tts") =>
              Len(sessions'[tasks'[i].session].transcript)
                  = Len(sessions[tasks'[i].session].transcript) + 1]_vars

\* What holds of C19: while a cycle waits for its TTS call or paces its
\* frames, the handler of its connection, when it waits for a message, can
\* take an inbound media event and forward it to its open stream.
C19_ForwardingDuringPlayback ==
    \A i \in 1..Len(tasks) :
        LET c == tasks[i].conn
        IN ( /\ InCycle(i)
             /\ HandlerReady(c)
             /\ call_sid[c] = tasks[i].call_sid
             /\ active_calls[call_sid[c]] = tasks[i].session
             /\ deepgram_ws[c] = "open" ) =>
               /\ MediaHandler(c, "inbound", "ok", TRUE).dgFed[c]
               /\ (\A j \in 1..Len(tasks) : tasks[j].pc # "scheduled") =>
                      CanRun(Handler(c))

\* A cycle paces its frames, and audio that arrived since its session's
\* start can still be forwarded by the waiting handler.
C19_CycleInFlightHandlerWaiting ==
    \E i \in 1..Len(tasks) :
        /\ tasks[i].pc = "pace"
        /\ HandlerReady(tasks[i].conn)
        /\ active_calls[tasks[i].call_sid] = tasks[i].session
        /\ deepgram_ws[tasks[i].conn] = "open"

\* C20: once the session of a cycle has been removed from the registry, the
\* cycle sends no frame: neither the first one when its TTS call returns
\* nor the next one after a pacing delay. Stated for the runs without a
\* duplicate start.
C20_NoFrameAfterTeardown ==
    NoOverwrite =>
        \A i \in 1..Len(tasks) :
            (InCycle(i) /\ ~InActiveCalls(tasks[i].call_sid)) =>
                /\ tasks[i].pc = "tts" =>
                      \A len \in AudioLens :
                          ~SendChunk(tasks[i].conn, Synthesis(TRUE, len)).sent
                /\ tasks[i].pc = "pace" =>
                      ~SendChunk(tasks[i].conn, tasks[i].pb).sent

\* What holds of C20: the stop branch and the disconnect branch never wait
\* for a cycle. With a cycle waiting for its TTS call or pacing its frames,
\* a stop event is handled at once up to the Deepgram finish, and the key is
\* removed when that finish is over, whatever the cycle does meanwhile.
C20_TeardownDoesNotWait ==
    \A i \in 1..Len(tasks) :
        LET c == tasks[i].conn
        IN ( /\ InCycle(i)
             /\ call_sid[c] = tasks[i].call_sid
             /\ InActiveCalls(call_sid[c]) ) =>
               /\ HandlerReady(c) =>
                     LET e == StopHandler(c, TRUE)
                     IN /\ e.persisted[active_calls[call_sid[c]]]
                               = persisted[active_calls[call_sid[c]]] + 1
                        /\ \/ e.hpc[c] = "stop_finish"
                           \/ e.active_calls[call_sid[c]] = 0
                        /\ e.tasks = tasks
               /\ HandlerReady(c) =>
                     LET d == DisconnectHandler(c)
                     IN /\ \/ d.hpc[c] = "disc_finish"
                           \/ d.active_calls[call_sid[c]] = 0
                        /\ d.tasks = tasks

\* C21: the tasks of process_agent_response are made in the order in which
\* the finalized utterances were delivered, and they take their first step,
\* the test of is_processing, in that order: a task has not started while a
\* task made before it waits for its start.
C21_UtterancesInOrder ==
    \A i, j \in 1..Len(tasks) :
        i < j =>
            /\ tasks[i].utt < tasks[j].utt
            /\ tasks[j].pc # "scheduled" => tasks[i].pc # "scheduled"

\* C21's case: two utterances of one session waited for their start at the
\* same time, the first has had its test and the second has not.
C21_Witness ==
    \E i, j \in 1..Len(tasks) :
        /\ i < j
        /\ tasks[i].call_sid = tasks[j].call_sid
        /\ tasks[i].conn = tasks[j].conn
        /\ tasks[i].outcome \in {"reply", "fallback"}
        /\ tasks[j].pc = "scheduled"
        /\ Task(i) \in tasks[j].seen

\* C22: the transcript of every session starts with a caller entry and
\* never holds two caller entries or two agent entries in a row, also after
\* a cycle whose agent.run raised. Stated for the runs without a duplicate
\* start.
C22_TranscriptAlternates ==
    NoOverwrite =>
        \A s \in SessionIds :
            LET t == sessions[s].transcript
            IN /\ t # <<>> => t[1].speaker = "Customer"
               /\ \A k \in 1..(Len(t) - 1) : t[k].speaker # t[k + 1].speaker

\* What holds of C22: a transcript starts with a caller entry, every agent
\* entry comes right after the caller entry of the same utterance, and the
\* entries are in the order of the utterances.
C22_AgentFollowsItsCaller ==
    \A s \in SessionIds :
        LET t == sessions[s].transcript
        IN /\ t # <<>> => t[1].speaker = "Customer"
           /\ \A k \in 1..Len(t) :
                 t[k].speaker = "Agent" =>
                     /\ k > 1
                     /\ t[k - 1] = [speaker |-> "Customer", utt |-> t[k].utt]
           /\ \A k \in 1..(Len(t) - 1) : t[k].utt <= t[k + 1].utt

\* A transcript holds the caller entry and the agent entry of one cycle and
\* the caller entry of the next.
C22_TwoCyclesLogged ==
    \E s \in SessionIds :
        /\ Len(sessions[s].transcript) >= 3
        /\ sessions[s].transcript[2].speaker = "Agent"

\* C23: the transcript of a Session object only grows at its end. A step
\* leaves it as it is or appends to it, and it appends only in the step in
\* which a task is accepted on that object: the caller entry and then the
\* agent entry of the task's utterance when agent.run returned, the caller
\* entry alone when it raised. No Session object ever goes away.
C23_TranscriptAppendOnly ==
    [][\A s \in SessionIds :
          /\ s <= Len(sessions')
          /\ LET old == sessions[s].transcript
                 new == sessions'[s].transcript
             IN /\ Len(old) <= Len(new)
                /\ SubSeq(new, 1, Len(old)) = old
                /\ new # old =>
                      \E i \in 1..Len(tasks) :
                          /\ tasks[i].pc = "scheduled"
                          /\ tasks'[i].pc = "tts"
                          /\ tasks'[i].session = s
                          /\ active_calls[tasks[i].call_sid] = s
                          /\ new = old \o
                                (IF tasks'[i].outcome = "reply"
                                 THEN << [speaker |-> "Customer", utt |-> tasks[i].utt],
                                         [speaker |-> "Agent", utt |-> tasks[i].utt] >>
                                 ELSE << [speaker |-> "Customer", utt |-> tasks[i].utt] >>)]_vars

\* C23's case: two cycles whose agent.run returned were logged on one live
\* session, four entries in all.
C23_Witness ==
    \E cid \in CallIds :
        /\ InActiveCalls(cid)
        /\ Len(sessions[active_calls[cid]].transcript) = 4
        /\ \A i \in 1..Len(tasks) : tasks[i].outcome = "reply"

\* The Session objects a step changes, and the call ids it binds, rebinds or
\* removes.
ChangedSessions == {s \in SessionIds : sessions'[s] # sessions[s]}
ChangedKeys == {cid \in CallIds : active_calls'[cid] # active_calls[cid]}

\* C24: a finalized utterance is put on a session only when it can come from
\* the stream that was opened for that session, the handler's current stream,
\* open and fed with that session's audio; an utterance of the stream of
\* another call changes no field of it. Stated for the runs without a
\* duplicate start.
C24_SessionsIndependent ==
    [][NoOverwrite =>
          \A c \in Conns :
              ( /\ Len(fragLog') = Len(fragLog) + 1
                /\ fragLog'[Len(fragLog')].conn = c
                /\ ChangedSessions # {} ) =>
                  (deepgram_ws[c] = "open" /\ dgFed[c])]_vars

\* What holds of C24: a step changes at most one Session object and at most
\* one key of the registry; a step of a task changes only the object it was
\* accepted on or, at its start, the one under its own call id, and no key;
\* a step of a handler changes only the key of its own call id; and a task
\* is dropped only when the session under its own call id has is_processing
\* true, whatever the other sessions hold.
C24_StepsTouchOneSession ==
    /\ [][/\ Cardinality(ChangedSessions) <= 1
          /\ Cardinality(ChangedKeys) <= 1
          /\ \A i \in 1..Len(tasks) :
                tasks'[i] # [tasks[i] EXCEPT !.seen = tasks'[i].seen] =>
                    /\ ChangedKeys = {}
                    /\ ChangedSessions \subseteq
                          {tasks[i].session, active_calls[tasks[i].call_sid]}
          /\ \A c \in Conns :
                hpc'[c] # hpc[c] => ChangedKeys \subseteq {call_sid'[c]}]_vars
    /\ [](\A i \in 1..Len(tasks), agentok \in BOOLEAN :
            (tasks[i].pc = "scheduled" /\ InActiveCalls(tasks[i].call_sid)) =>
                (TaskStartHandler(i, agentok).tasks[i].outcome = "dropped"
                    <=> sessions[active_calls[tasks[i].call_sid]].is_processing))

\* Two sessions are live, one with is_processing true, and an utterance
\* waits for its start on the other.
C24_TwoLiveSessions ==
    \E i \in 1..Len(tasks), cid \in CallIds :
        /\ tasks[i].pc = "scheduled"
        /\ InActiveCalls(tasks[i].call_sid)
        /\ cid # tasks[i].call_sid
        /\ InActiveCalls(cid)
        /\ sessions[active_calls[cid]].is_processing
        /\ ~sessions[active_calls[tasks[i].call_sid]].is_processing

\* The differences a claim bounds.
Abs(n) == IF n < 0 THEN -n ELSE n

\* mulaw_to_pcm has returned for the string; it has returned twice; and so
\* on for pcm_to_mulaw.
Decoded == codec.pc \in {"decode_again", "encode", "encode_again", "done"}
DecodedTwice == codec.pc \in {"encode", "encode_again", "done"}
Encoded == codec.pc \in {"encode_again", "done"}
EncodedTwice == codec.pc = "done"

\* C25 as stated: mulaw_to_pcm yields twice as many 16-bit samples as its
\* input has bytes, the round trip at 16000 yields a length within one of
\* the input's, and a second call on the same input yields the same output.
C25_TwiceTheSampleCount ==
    /\ Decoded => Len(codec.wide) = 2 * Len(codec.x)
    /\ DecodedTwice => codec.wide2 = codec.wide
    /\ Encoded => Abs(Len(codec.back) - Len(codec.x)) <= 1
    /\ EncodedTwice => codec.back2 = codec.back

\* C25 as amended: mulaw_to_pcm yields 2n - 1 samples for an input of n >= 1
\* bytes and none for the empty input, every one a 16-bit value; the round
\* trip at 16000 yields exactly n bytes; and a second call of either
\* conversion on the same input yields the same output, which is what the
\* function gives with no call before it.
C25_OneShortOfTwice ==
    LET n == Len(codec.x)
    IN /\ Decoded =>
             /\ Len(codec.wide) = IF n = 0 THEN 0 ELSE 2 * n - 1
             /\ Abs(Len(codec.wide) - 2 * n) <= 1
             /\ \A k \in 1..Len(codec.wide) :
                   codec.wide[k] \in -32768..32767
             /\ codec.wide = mulaw_to_pcm(codec.x)
       /\ DecodedTwice => codec.wide2 = codec.wide
       /\ Encoded =>
             /\ Len(codec.back) = n
             /\ \A k \in 1..Len(codec.back) : codec.back[k] \in 0..255
             /\ codec.back = pcm_to_mulaw(codec.wide, 16000)
       /\ EncodedTwice => codec.back2 = codec.back

\* C25's case: a string of three bytes went through both conversions twice,
\* five samples wide, and came back with another byte for the negative zero.
C25_Witness ==
    /\ codec.pc = "done"
    /\ Len(codec.x) = 3
    /\ Len(codec.wide) = 5
    /\ Len(codec.back2) = 3
    /\ codec.back # codec.x

\* C26: a stop event for a live session whose store_conversation raises is
\* handled as one whose store_conversation returns: one call is counted for
\* the session and none is made again, the handler stays on its open socket
\* and goes on to finish the Deepgram stream it holds, or removes the
\* session at once when it holds none; and the step that ends the finish
\* leaves the stream closed and the call id out of the registry, with no
\* further call of store_conversation.
C26_StoreFailureStillTearsDown ==
    /\ [](\A c \in Conns :
            (HandlerReady(c) /\ InActiveCalls(call_sid[c])) =>
                LET e == StopHandler(c, FALSE)
                    s == active_calls[call_sid[c]]
                IN /\ e = StopHandler(c, TRUE)
                   /\ e.persisted = [persisted EXCEPT ![s] = @ + 1]
                   /\ e.wsOpen[c]
                   /\ IF deepgram_ws[c] = None
                      THEN e.hpc[c] = "idle" /\ e.active_calls[call_sid[c]] = 0
                      ELSE e.hpc[c] = "stop_finish")
    /\ [][\A c \in Conns :
            (hpc[c] = "stop_finish" /\ hpc'[c] # "stop_finish") =>
                /\ deepgram_ws'[c] = "closed"
                /\ active_calls'[call_sid[c]] = 0
                /\ persisted' = persisted]_vars

\* C26's case: a stop event was handled to its end: the session it stored
\* once is out of the registry, the stream is closed and the handler is back
\* in its loop on the open socket.
C26_Witness ==
    \E c \in Conns, s \in SessionIds :
        /\ HandlerReady(c)
        /\ sessions[s].stream_sid = StreamSid(c)
        /\ persisted[s] = 1
        /\ \A cid \in CallIds : active_calls[cid] # s
        /\ call_sid[c] # None /\ ~InActiveCalls(call_sid[c])
        /\ deepgram_ws[c] = "closed"

\* The milliseconds since the Session object s was created.
Elapsed(s) == now - sessions[s].start_time

\* C27: whenever a stop event can be handled for a live session, the
\* duration it passes to store_conversation is not negative, and it is at
\* least half a second when at least 500 ms have passed since start_time.
C27_DurationAtLeastHalfSecond ==
    \A c \in Conns :
        (HandlerReady(c) /\ InActiveCalls(call_sid[c])) =>
            LET s == active_calls[call_sid[c]]
            IN /\ Duration(s) >= 0
               /\ Elapsed(s) >= 500 => Duration(s) * 1000 >= 500

\* What holds of C27: the duration is computed from start_time of the
\* session under the handler's call id and is the number of whole seconds
\* passed since then: not negative, never more than the time passed and
\* less than a second short of it, so at least 1 once a second has passed.
C27_DurationWholeSeconds ==
    \A c \in Conns :
        (HandlerReady(c) /\ InActiveCalls(call_sid[c])) =>
            LET s == active_calls[call_sid[c]]
            IN /\ Duration(s) >= 0
               /\ Duration(s) * 1000 <= Elapsed(s)
               /\ Elapsed(s) < (Duration(s) + 1) * 1000
               /\ Elapsed(s) >= 1000 => Duration(s) >= 1

\* A stop event can be handled between half a second and a second after
\* the session was created.
C27_StopWithinFirstSecond ==
    \E c \in Conns :
        /\ HandlerReady(c) /\ InActiveCalls(call_sid[c])
        /\ Elapsed(active_calls[call_sid[c]]) \in 500..999

\* C28: a step of a cycle in flight changes no Session object but the one
\* the task looked up when it was accepted, and of that one nothing but
\* is_processing, which is false after the step that ends the cycle; so a
\* session created under the same call id since then keeps its transcript
\* and its is_processing.
C28_OldCycleKeepsToItsObject ==
    [][\A i \in 1..Len(tasks) :
          (InCycle(i) /\ (tasks'[i].pc # tasks[i].pc \/ tasks'[i].pb # tasks[i].pb)) =>
              /\ \A s \in SessionIds :
                    s # tasks[i].session => sessions'[s] = sessions[s]
              /\ sessions'[tasks[i].session] =
                    [sessions[tasks[i].session] EXCEPT
                        !.is_processing = IF tasks'[i].pc = "done" THEN FALSE ELSE @]
              /\ tasks'[i].session = tasks[i].session]_vars

\* C28's case: the call id of a cycle was removed and bound to a new
\* session while the cycle was in flight; the cycle is over, and the new
\* session still holds is_processing for a cycle of its own.
C28_Witness ==
    \E i, j \in 1..Len(tasks) :
        /\ tasks[i].pc = "done" /\ tasks[i].outcome \in {"reply", "fallback"}
        /\ InCycle(j)
        /\ tasks[j].call_sid = tasks[i].call_sid
        /\ tasks[j].session # tasks[i].session
        /\ active_calls[tasks[j].call_sid] = tasks[j].session
        /\ overwrote[tasks[j].session] = 0
        /\ sessions[tasks[j].session].is_processing
        /\ ~sessions[tasks[i].session].is_processing

\* The coroutines in the middle of a playback on the socket of connection
\* c: a frame was sent and the next one waits for its pacing delay.
MidPlayback(c) ==
    {Task(i) : i \in {j \in 1..Len(tasks) :
                        tasks[j].conn = c /\ tasks[j].pc = "pace"}}
        \cup (IF hpc[c] = "welcome_pace" THEN {Handler(c)} ELSE {})

\* The coroutines whose next step can send a frame on the socket of
\* connection c: those in the middle of a playback, and those that wait for
\* the TTS call of one.
AboutToSend(c) ==
    IF wsOpen[c]
    THEN MidPlayback(c)
            \cup {Task(i) : i \in {j \in 1..Len(tasks) :
                                    tasks[j].conn = c /\ tasks[j].pc = "tts"}}
            \cup (IF hpc[c] = "welcome_tts" THEN {Handler(c)} ELSE {})
    ELSE {}

\* The Session objects the start events of connection c created.
StartedOn(c) == {s \in SessionIds : sessions[s].stream_sid = StreamSid(c)}

\* C29: while a playback is between two of its frames on a connection, no
\* other playback can send a frame on that connection: neither a cycle nor
\* the welcome waits for its TTS call or for a pacing delay there. Stated
\* for the runs without a duplicate start.
C29_PlaybacksNotInterleaved ==
    NoOverwrite =>
        \A c \in Conns :
            \A x \in MidPlayback(c) : AboutToSend(c) \subseteq {x}

\* Every connection has handled at most one start event, and no two of them
\* for the same call id.
OneStartPerCall ==
    /\ \A c \in Conns : Cardinality(StartedOn(c)) <= 1
    /\ \A c, d \in Conns :
          (c # d /\ call_sid[c] # None) => call_sid[c] # call_sid[d]

\* What holds of C29: when every connection has handled at most one start
\* event and no call id was started twice, no two playbacks are interleaved
\* on a connection, and while the welcome is on its way no task exists for
\* the connection at all.
C29_OneStartNotInterleaved ==
    OneStartPerCall =>
        \A c \in Conns :
            /\ \A x \in MidPlayback(c) : AboutToSend(c) \subseteq {x}
            /\ hpc[c] \in {"welcome_tts", "welcome_pace"} =>
                  \A i \in 1..Len(tasks) : tasks[i].conn # c

\* A reply is between two frames on a connection that has handled one
\* start event, and a second utterance waits for its start.
C29_ReplyPlayingUtteranceWaiting ==
    \E i, j \in 1..Len(tasks) :
        /\ tasks[i].pc = "pace"
        /\ tasks[j].pc = "scheduled"
        /\ tasks[j].conn = tasks[i].conn
        /\ OneStartPerCall
        /\ Len(sessions) = MaxSessions

\* The Session object s is bound to a call id.
Registered(s) == \E cid \in CallIds : active_calls[cid] = s

\* C30: when the handler of a connection has ended, no session that its
\* start events created is in the registry and it holds no open Deepgram
\* stream. Stated for the runs without a duplicate start.
C30_NoSessionOutlivesConnection ==
    NoOverwrite =>
        \A c \in Conns :
            hpc[c] = "done" =>
                /\ \A s \in StartedOn(c) : ~Registered(s)
                /\ deepgram_ws[c] # "open"

\* What holds of C30: a handler that ends by a disconnect of the transport
\* leaves the call id it holds out of the registry and the stream it holds
\* closed: at once when it holds no stream, and in the step that ends the
\* finish otherwise; and a handled stop event does the same while the
\* handler stays in its loop.
C30_DisconnectCleansUp ==
    /\ [](\A c \in Conns :
            HandlerReady(c) =>
                LET d == DisconnectHandler(c)
                IN IF deepgram_ws[c] = None
                   THEN /\ d.hpc[c] = "done"
                        /\ call_sid[c] # None => d.active_calls[call_sid[c]] = 0
                   ELSE d.hpc[c] = "disc_finish" /\ d.active_calls = active_calls)
    /\ [][\A c \in Conns :
            /\ (hpc[c] = "disc_finish" /\ hpc'[c] # "disc_finish") =>
                  /\ hpc'[c] = "done"
                  /\ deepgram_ws'[c] = "closed"
                  /\ call_sid[c] # None => active_calls'[call_sid[c]] = 0
            /\ (hpc[c] = "stop_finish" /\ hpc'[c] = "idle") =>
                  /\ deepgram_ws'[c] = "closed"
                  /\ active_calls'[call_sid[c]] = 0]_vars

\* A handler has ended by a disconnect after a stop event that stored and
\* removed its session and closed its stream.
C30_StopThenClose ==
    \E c \in Conns :
        /\ hpc[c] = "done"
        /\ deepgram_ws[c] = "closed"
        /\ StartedOn(c) # {}
        /\ \A s \in StartedOn(c) : ~Registered(s) /\ persisted[s] = 1

\* ------------------------------------------------------- specification
TaskIds == 1..MaxFragments

\* The steps of the connections CS, of the Deepgram streams they opened and
\* of the tasks.
NextFor(CS) ==
    \/ \E c \in CS, ev \in StartEvents, dgok \in BOOLEAN : Start(c, ev, dgok)
    \/ \E c \in CS, ok \in BOOLEAN, len \in AudioLens : WelcomeTTSDone(c, ok, len)
    \/ \E c \in CS : WelcomePace(c)
    \/ \E c \in CS, track \in {"inbound", "outbound"},
          payload \in {"ok", "malformed"}, sendok \in BOOLEAN :
              Media(c, track, payload, sendok)
    \/ \E c \in CS, stored \in BOOLEAN : Stop(c, stored)
    \/ \E c \in CS : StopFinishDone(c)
    \/ \E c \in CS : Mark(c)
    \/ \E c \in CS : BadMessage(c)
    \/ \E c \in CS : Disconnect(c)
    \/ \E c \in CS : DiscFinishDone(c)
    \/ \E c \in CS, r \in Results : Fragment(c, r)
    \/ \E i \in TaskIds, agentok \in BOOLEAN : TaskStart(i, agentok)
    \/ \E i \in TaskIds, ok \in BOOLEAN, len \in AudioLens : TaskTTSDone(i, ok, len)
    \/ \E i \in TaskIds : TaskPace(i)

Next == NextFor(Conns)

Spec == Init /\ [][Next]_vars

\* The event loop runs every task that is ready, the TTS request of a cycle
\* returns or fails (httpx timeout, services/voice.py line 275) and
\* asyncio.sleep returns: the steps of a task are taken when they stay
\* possible. Nothing is assumed about the transport or the STT service.
TaskFairness ==
    \A i \in TaskIds :
        /\ WF_vars(\E agentok \in BOOLEAN : TaskStart(i, agentok))
        /\ WF_vars(\E ok \in BOOLEAN, len \in AudioLens : TaskTTSDone(i, ok, len))
        /\ WF_vars(TaskPace(i))

\* One connection under fair scheduling of the tasks.
LiveNext == NextFor({1})

LiveSpec == Init /\ [][LiveNext]_vars /\ TaskFairness

\* One call of stream_audio_to_twilio_websocket, for every audio string.
PlayNext == PlaySend \/ PlaySleep

PlaySpec == PlayInit /\ [][PlayNext]_vars

\* One audio string through mulaw_to_pcm and pcm_to_mulaw, for every string.
CodecNext ==
    CodecDecode \/ CodecDecodeAgain \/ CodecEncode \/ CodecEncodeAgain

CodecSpec == CodecInit /\ [][CodecNext]_vars

\* The handler of one connection from start to stop, with the clock running.
TimedNext ==
    \/ Tick
    \/ \E ev \in StartEvents, dgok \in BOOLEAN : Start(1, ev, dgok)
    \/ \E ok \in BOOLEAN, len \in AudioLens : WelcomeTTSDone(1, ok, len)
    \/ WelcomePace(1)
    \/ \E stored \in BOOLEAN : Stop(1, stored)
    \/ StopFinishDone(1)

TimedSpec == Init /\ [][TimedNext]_vars
====
